---- MODULE Spec2Model ----
(***************************************************************************)
(* RLP (de-)serialisation of libethereum: the reading class RLP and the    *)
(* writing class RLPStream of RLP.h.                                       *)
(*                                                                         *)
(* Bytes are naturals 0..255.  A byte buffer is a sequence of bytes.  A    *)
(* bytesConstRef is a record [off, len] into the buffer `buf` the node was *)
(* constructed over; off = -1 is the null reference (m_data == nullptr).   *)
(* An unsigned integer value (uint, u256, bigint) is its big-endian        *)
(* base-256 numeral without leading zero bytes (0 is << >>), because the   *)
(* values of interest exceed the range of the checker's integers; the only *)
(* arithmetic the codec applies to them is >> 8, << 8, | byte, (byte) and  *)
(* comparison with small constants.                                        *)
(***************************************************************************)
EXTENDS Integers, Sequences, FiniteSets, TLC

VARIABLES
    src,          \* the value handed to the stream builder (ghost)
    todo,         \* items the caller still has to append, in order
    m_out,        \* RLPStream::m_out
    buf,          \* the byte buffer the node was constructed over
    tail,         \* the byte that memory holds beyond the end of buf
    faults,       \* TRUE: the build traps on a read beyond the buffer
    m_data,       \* RLP::m_data
    m_lastIndex,  \* RLP::m_lastIndex, -1 stands for (uint)-1
    m_lastEnd,    \* RLP::m_lastEnd
    m_lastItem,   \* RLP::m_lastItem
    its,          \* the live RLP::iterator objects, oldest first
    advanced,     \* how often each live iterator was incremented (ghost)
    starts,       \* offset in m_out of each top-level list item (ghost)
    res,          \* outcome of the last decoder call
    pc            \* "build": appending; "read": node constructed

vars == <<src, todo, m_out, buf, tail, faults, m_data, m_lastIndex,
          m_lastEnd, m_lastItem, its, advanced, starts, res, pc>>

----------------------------------------------------------------------------
(* Bounds of the model *)

\* longest integer payload, in bytes, handed to append(bigint)
MaxIntBytes == 34
\* most items in the top-level list
MaxItems == 3
\* most iterators alive at once
MaxCursors == 2

----------------------------------------------------------------------------
(* Small helpers *)

Max(a, b) == IF a > b THEN a ELSE b

Rep(n, b) == [i \in 1..n |-> b]

RECURSIVE SeqsUpTo(_, _)
SeqsUpTo(S, n) ==
    IF n = 0 THEN { << >> }
    ELSE LET P == SeqsUpTo(S, n - 1)
         IN  P \cup { Append(p, x) : p \in { q \in P : Len(q) = n - 1 }, x \in S }

----------------------------------------------------------------------------
(* Unsigned integers as big-endian numerals *)

\* width in bytes of eth::uint (64 bit) and eth::u256; 0 = unbounded bigint
SlimBytes == 8
FatBytes == 32
BigBytes == 0

\* the numeral without its leading zero bytes
Norm(s) ==
    IF \A i \in 1..Len(s) : s[i] = 0 THEN << >>
    ELSE LET k == CHOOSE j \in 1..Len(s) :
                     s[j] # 0 /\ \A i \in 1..(j - 1) : s[i] = 0
         IN  SubSeq(s, k, Len(s))

Trunc(s, W) == IF W > 0 /\ Len(s) > W
               THEN SubSeq(s, Len(s) - W + 1, Len(s)) ELSE s

RECURSIVE NumOf(_)
NumOf(n) == IF n = 0 THEN << >> ELSE NumOf(n \div 256) \o << n % 256 >>

\* _i >> 8
Shr8(x) == IF x = << >> THEN << >> ELSE SubSeq(x, 1, Len(x) - 1)
\* (byte)_i
LowByte(x) == IF x = << >> THEN 0 ELSE x[Len(x)]
\* (ret << 8) | b   in a type of W bytes
ShlOr(x, b, W) == Norm(Trunc(Append(x, b), W))
\* _i < 0x18
Below24(x) == x = << >> \/ (Len(x) = 1 /\ x[1] < 24)

----------------------------------------------------------------------------
(* vector_ref<byte const> *)

NullRef == [off |-> -1, len |-> 0]

\* m_data[_i]: a read at or beyond the end of the buffer is undefined
\* behaviour; the release build yields whatever memory holds there (tail).
Mem(addr) == IF addr < Len(buf) THEN buf[addr + 1] ELSE tail
At(ref, pos) == Mem(ref.off + pos)

\* vector_ref::cropped(_begin, _count), _count = -1 meaning "to the end"
cropped(d, begin, count) ==
    IF d.off >= 0 /\ begin + Max(0, count) <= d.len
    THEN [off |-> d.off + begin,
          len |-> IF count < 0 THEN d.len - begin ELSE count]
    ELSE NullRef

\* vector_ref::toString(): the bytes of the view
BytesOf(d) == [i \in 1..d.len |-> Mem(d.off + i - 1)]

----------------------------------------------------------------------------
(* class RLP: classification *)

FirstByte(d) == At(d, 0)

isNull(d) == d.len = 0

isEmpty(d) == FirstByte(d) = 64 \/ FirstByte(d) = 128

isString(d) == FirstByte(d) >= 64 /\ FirstByte(d) < 128

isList(d) == FirstByte(d) >= 128 /\ FirstByte(d) < 192

isInt(d) == FirstByte(d) < 64

\* variant: the slim tier one prefix too wide
isSlimInt_wide(d) == FirstByte(d) < 33

isSlimInt(d) == FirstByte(d) < 32

isFatInt(d) == FirstByte(d) >= 32 /\ FirstByte(d) < 56

isFixedInt(d) == FirstByte(d) < 56

isBigInt(d) == FirstByte(d) >= 56 /\ FirstByte(d) < 64

isDirectValueInt(d) == FirstByte(d) < 24

isIndirectValueInt(d) == FirstByte(d) >= 24 /\ FirstByte(d) < 56

isIndirectAddressedInt(d) == FirstByte(d) < 64 /\ FirstByte(d) >= 56

isSmallString(d) == FirstByte(d) >= 64 /\ FirstByte(d) < 120

isSmallList(d) == FirstByte(d) >= 128 /\ FirstByte(d) < 184

----------------------------------------------------------------------------
(* class RLP: sizes *)

\* m_data[0] & 0x3f
Field(d) == FirstByte(d) % 64

\* variant: the length bytes counted from 0x38 instead of 0x37
lengthSize_short(d) == IF Field(d) > 55 THEN Field(d) - 56 ELSE 0

lengthSize(d) == IF Field(d) > 55 THEN Field(d) - 55 ELSE 0

RECURSIVE itemsLoop(_, _, _)
\* the for loop of items; st holds its locals ret and i
itemsLoop(st, n, d) ==
    IF st.i >= n THEN st.ret
    ELSE itemsLoop([ret |-> st.ret * 256 + At(d, st.i + 1), i |-> st.i + 1],
                   n, d)

items(d) == IF Field(d) < 56 THEN Field(d)
            ELSE itemsLoop([ret |-> 0, i |-> 0], Field(d) - 55, d)

\* variant: the indirect-value payload counted from 0x18 instead of 0x17
intSize_short(d) ==
    IF ~isInt(d) \/ isDirectValueInt(d) THEN 0
    ELSE IF isIndirectAddressedInt(d) THEN lengthSize(d) + items(d)
    ELSE FirstByte(d) - 24

intSize(d) ==
    IF ~isInt(d) \/ isDirectValueInt(d) THEN 0
    ELSE IF isIndirectAddressedInt(d) THEN lengthSize(d) + items(d)
    ELSE FirstByte(d) - 23

\* variant: the length bytes not skipped
payload_noLength(d) == cropped(d, 1, -1)

payload(d) ==
    cropped(d, 1 + (IF Field(d) < 56 THEN 0 ELSE Field(d) - 55), -1)

itemCount(d) == IF isList(d) THEN items(d) ELSE 0

stringSize(d) == IF isString(d) THEN items(d) ELSE 0

----------------------------------------------------------------------------
(* class RLP: conversions.  A strict conversion yields a record            *)
(* [st, val] with st = "BadCast" when it throws.                           *)

Ok(v) == [st |-> "ok", val |-> v]
BadCast == [st |-> "BadCast", val |-> << >>]

\* variant: the count taken from the prefix field, not from items()
toString_field(d) ==
    IF ~isString(d) THEN << >>
    ELSE BytesOf(cropped(payload(d), 0, Field(d)))

toString(d) ==
    IF ~isString(d) THEN << >>
    ELSE BytesOf(cropped(payload(d), 0, items(d)))

toStringStrict(d) ==
    IF ~isString(d) THEN BadCast
    ELSE Ok(BytesOf(cropped(payload(d), 0, items(d))))

\* s of toInt: the number of payload bytes folded into the result
toIntCount(d) ==
    IF isInt(d) THEN intSize(d) - lengthSize(d)
    ELSE IF isString(d) THEN items(d) ELSE 0

RECURSIVE toIntLoop(_, _, _, _, _)
\* the for loop of toInt; st holds its locals ret and i
toIntLoop(st, s, o, d, W) ==
    IF st.i >= s THEN st.ret
    ELSE toIntLoop([ret |-> ShlOr(st.ret, At(d, st.i + o), W), i |-> st.i + 1],
                   s, o, d, W)

\* variant: the payload read from offset lengthSize() instead of
\* lengthSize() + 1
toInt_offByOne(d, W) ==
    IF ~isString(d) /\ ~isInt(d) THEN << >>
    ELSE IF isDirectValueInt(d) THEN NumOf(FirstByte(d))
    ELSE toIntLoop([ret |-> << >>, i |-> 0], toIntCount(d), lengthSize(d),
                   d, W)

\* toInt<_T>() with _T of W bytes
toInt(d, W) ==
    IF ~isString(d) /\ ~isInt(d) THEN << >>
    ELSE IF isDirectValueInt(d) THEN NumOf(FirstByte(d))
    ELSE toIntLoop([ret |-> << >>, i |-> 0], toIntCount(d), lengthSize(d) + 1,
                   d, W)

toSlimInt(d) == toInt(d, SlimBytes)
toFatInt(d) == toInt(d, FatBytes)
toBigInt(d) == toInt(d, BigBytes)

toSlimIntStrict(d) == IF ~isSlimInt(d) THEN BadCast ELSE Ok(toInt(d, SlimBytes))

toFatIntStrict(d) ==
    IF ~isFatInt(d) /\ ~isSlimInt(d) THEN BadCast ELSE Ok(toInt(d, FatBytes))

toBigIntStrict(d) == IF ~isInt(d) THEN BadCast ELSE Ok(toInt(d, BigBytes))

\* variant: the strict accessor without its type check
itemCountStrict_lenient(d) == Ok(<< itemCount(d) >>)

itemCountStrict(d) == IF ~isList(d) THEN BadCast ELSE Ok(<< items(d) >>)

\* operator==(std::string const&)
eqString(d, s) == isString(d) /\ toString(d) = s
\* operator==(uint const&), operator==(u256 const&), operator==(bigint const&)
\* variant: the comparison without its category guard
eqSlim_unguarded(d, i) == toSlimInt(d) = i

eqSlim(d, i) == (isInt(d) \/ isString(d)) /\ toSlimInt(d) = i
eqFat(d, i) == (isInt(d) \/ isString(d)) /\ toFatInt(d) = i
eqBig(d, i) == (isInt(d) \/ isString(d)) /\ toBigInt(d) = i

----------------------------------------------------------------------------
(* How far into m_data a call reads: one past the highest index i of any   *)
(* m_data[i] it evaluates.  cropped() never reads.                         *)

itemsReach(d) == 1 + lengthSize(d)

toIntReach(d) ==
    IF (~isString(d) /\ ~isInt(d)) \/ isDirectValueInt(d) THEN 1
    ELSE Max(IF isString(d) \/ isIndirectAddressedInt(d) THEN itemsReach(d) ELSE 1,
             lengthSize(d) + 1 + toIntCount(d))

toStringReach(d) == IF isString(d) THEN itemsReach(d) ELSE 1

itemCountReach(d) == IF isList(d) THEN itemsReach(d) ELSE 1

----------------------------------------------------------------------------
(* class RLP: traversal *)

RECURSIVE actualSize(_), skipItems(_, _)
\* the for loop of actualSize over the c items of a list; st holds its
\* locals d and i
skipItems(st, c) ==
    IF st.i >= c THEN st.d
    ELSE skipItems([d |-> cropped(st.d, actualSize(st.d), -1), i |-> st.i + 1],
                   c)

actualSize(d) ==
    IF isNull(d) THEN 0
    ELSE IF isInt(d) THEN 1 + intSize(d)
    ELSE IF isString(d) THEN (payload(d).off - d.off) + items(d)
    ELSE IF isList(d) THEN skipItems([d |-> payload(d), i |-> 0], items(d)).off - d.off
    ELSE 0

\* _i < m_lastIndex in uint, m_lastIndex = -1 being (uint)-1
ULess(i, li) == li = -1 \/ i < li

RECURSIVE indexLoop(_, _, _)
\* the scanning loop of operator[]; c is the cache [idx, end, item]
indexLoop(d, c, i) ==
    IF ~(c.idx < i) THEN c
    ELSE LET rest == cropped(payload(d), c.end, -1)
             item == cropped(rest, 0, actualSize(rest))
         IN  indexLoop(d, [idx |-> c.idx + 1, end |-> c.end + item.len,
                           item |-> item], i)

\* RLP::operator[]: the cache afterwards and the view of the node returned
index(d, c, i) ==
    IF ~isList(d) \/ itemCount(d) <= i THEN [cache |-> c, ret |-> NullRef]
    ELSE LET c0 == IF ULess(i, c.idx)
                   THEN LET e == actualSize(payload(d))
                        IN  [idx |-> 0, end |-> e,
                             item |-> cropped(payload(d), 0, e)]
                   ELSE c
             c1 == indexLoop(d, c0, i)
         IN  [cache |-> c1, ret |-> c1.item]

\* the cache of a freshly constructed node
FreshCache == [idx |-> -1, end |-> 0, item |-> NullRef]

\* RLP::iterator::iterator(_parent, _begin)
iterator(parent, begin) ==
    IF begin /\ isList(parent)
    THEN LET pl == payload(parent)
             first == cropped(pl, 0, actualSize(pl))
         IN  [m_remaining |-> pl.len - first.len, m_lastItem |-> first]
    ELSE [m_remaining |-> 0, m_lastItem |-> cropped(parent, parent.len, -1)]

\* RLP::iterator::operator++
increment(it) ==
    LET nxt == it.m_lastItem.off + it.m_lastItem.len
    IN  IF it.m_remaining # 0
        THEN LET whole == [off |-> nxt, len |-> it.m_remaining]
                 item == cropped(whole, 0, actualSize(whole))
             IN  [m_remaining |-> it.m_remaining
                                  - (IF it.m_remaining < item.len
                                     THEN it.m_remaining ELSE item.len),
                  m_lastItem |-> item]
        ELSE [m_remaining |-> 0, m_lastItem |-> [off |-> nxt, len |-> 0]]

\* RLP::iterator::operator*
deref(it) == it.m_lastItem

\* RLP::iterator::operator==
iterEq(a, b) == a.m_lastItem = b.m_lastItem

----------------------------------------------------------------------------
(* class RLPStream *)

RECURSIVE pushIntLoop(_)
\* the for loop of pushInt; st holds m_out, the pointer b and _i
pushIntLoop(st) ==
    IF st.i = << >> THEN st.out
    ELSE pushIntLoop([out |-> [st.out EXCEPT ![st.b] = LowByte(st.i)],
                      b |-> st.b - 1, i |-> Shr8(st.i)])

\* pushInt(_i, _br): resize by _br zero bytes, then fill backwards from the
\* last byte while _i is non-zero
pushInt(out, i, br) ==
    LET grown == out \o Rep(br, 0)
    IN  pushIntLoop([out |-> grown, b |-> Len(grown), i |-> i])

RECURSIVE bytesRequiredLoop(_)
\* the for loop of bytesRequired; st holds _i and the counter i as n
bytesRequiredLoop(st) ==
    IF st.i = << >> THEN st.n
    ELSE bytesRequiredLoop([i |-> Shr8(st.i), n |-> st.n + 1])

\* variant: the initial _i >>= 8 left out
bytesRequired_unshifted(i) == bytesRequiredLoop([i |-> i, n |-> 1])

bytesRequired(i) == bytesRequiredLoop([i |-> Shr8(i), n |-> 1])

pushCount(out, count, base) ==
    LET br == bytesRequired(NumOf(count))
    IN  pushInt(Append(out, br + 55 + base), NumOf(count), br)

append_uint(out, v) ==
    IF Below24(v) THEN Append(out, LowByte(v))
    ELSE LET br == bytesRequired(v)
         IN  pushInt(Append(out, br + 23), v, br)

append_u256(out, v) ==
    IF Below24(v) THEN Append(out, LowByte(v))
    ELSE LET br == bytesRequired(v)
         IN  pushInt(Append(out, br + 23), v, br)

append_bigint(out, v) ==
    IF Below24(v) THEN Append(out, LowByte(v))
    ELSE LET br == bytesRequired(v)
         IN  IF br <= 32 THEN pushInt(Append(out, br + 23), v, br)
             ELSE LET brbr == bytesRequired(NumOf(br))
                  IN  pushInt(pushInt(Append(out, 55 + brbr), NumOf(br), brbr),
                              v, br)

append_string(out, s) ==
    (IF Len(s) < 56 THEN Append(out, Len(s) + 64)
     ELSE pushCount(out, Len(s), 64)) \o s

appendList(out, count) ==
    IF count < 56 THEN Append(out, count + 128)
    ELSE pushCount(out, count, 128)

----------------------------------------------------------------------------
(* The values the caller encodes *)

IntV(v) == [k |-> "int", v |-> v, xs |-> << >>]
StrV(b) == [k |-> "str", v |-> b, xs |-> << >>]
ListV(xs) == [k |-> "list", v |-> << >>, xs |-> xs]

Dog == << 100, 111, 103 >>

\* a string of n bytes without a repeated neighbour
Text(n) == [i \in 1..n |-> (i * 7) % 256]

IntValues ==
    { NumOf(n) : n \in {0, 1, 23, 24, 255, 256, 65535, 65536} }
    \cup { << hi >> \o Rep(n - 1, f) :
              n \in 1..MaxIntBytes, hi \in {1, 255}, f \in {0, 255} }
    \cup { [i \in 1..n |-> i] : n \in 1..MaxIntBytes }

StrValues ==
    { Dog, << 0, 1 >> } \cup { Text(n) : n \in {0, 1, 55, 56, 57} }

Leaves == { IntV(<< 1 >>), IntV(<< 1, 0 >>), StrV(Dog) }

\* what the top-level list may hold: scalars and lists nested up to two deep
Kids ==
    Leaves
    \cup { ListV(<< >>),
           ListV(<< IntV(<< 1, 0 >>) >>),
           ListV(<< ListV(<< StrV(Dog) >>), IntV(<< 1 >>) >>) }

ListValues ==
    { ListV(xs) : xs \in SeqsUpTo(Kids, MaxItems) }
    \cup { ListV([i \in 1..56 |-> IntV(<< 1 + (i % 2) >>)]),
           ListV(<< StrV(Text(56)), IntV(<< 1 >>) >>),
           ListV(<< IntV(Rep(33, 255)), StrV(Dog), ListV(<< StrV(Text(57)) >>) >>),
           ListV(<< IntV(<< >>), StrV(<< >>), ListV(<< >>), IntV(Rep(9, 255)) >>) }

Sources ==
    { IntV(v) : v \in IntValues } \cup { StrV(b) : b \in StrValues }
    \cup ListValues

----------------------------------------------------------------------------
(* Byte buffers received from elsewhere, well-formed or not *)

FirstBytes ==
    { 0, 23, 24, 25, 31, 32, 55, 56, 57, 64, 65, 67, 119, 120, 121,
      128, 129, 183, 184, 185, 192, 255 }

\* values of an indirect count field
Counts == { 0, 1, 33 }

\* the byte memory may hold beyond the end of the buffer
TailBytes == { 0, 1 }

\* big-endian count in exactly k bytes
CountBytes(c, k) == LET n == NumOf(c) IN Rep(k - Len(n), 0) \o n

\* number of payload bytes that first byte b with count field c announces
Announced(b, c) ==
    LET f == b % 64
    IN  IF b >= 128 THEN 0
        ELSE IF f >= 56 THEN c
        ELSE IF b < 24 THEN 0
        ELSE IF b < 64 THEN b - 23
        ELSE f

\* the complete buffers that start with b and carry count field c
Full(b, c) ==
    { << b >> \o (IF b % 64 >= 56 THEN CountBytes(c, (b % 64) - 55) ELSE << >>)
              \o fill :
        fill \in { Rep(Announced(b, c), 1),
                   [i \in 1..Announced(b, c) |-> IF i = 1 THEN 0 ELSE 255] } }

FullBufs == UNION { Full(b, c) : b \in FirstBytes, c \in Counts }

\* a buffer may be cut short; the cuts kept are those around its ends that
\* leave at most one byte of the count field missing
Prefixes(f) ==
    LET k == IF f[1] % 64 >= 56 THEN (f[1] % 64) - 55 ELSE 0
    IN  { SubSeq(f, 1, n) : n \in { k, k + 1, Len(f) - 1, Len(f) } \cap (1..Len(f)) }

RawBufs ==
    UNION { Prefixes(f) : f \in FullBufs }
    \cup { b \in SeqsUpTo({ 1, 65, 129 }, 3) : b # << >> }

StrLits == { << >>, << 1 >>, Dog }
IntLits == { << >>, << 1 >>, << 1, 1 >>, Rep(9, 1) }

----------------------------------------------------------------------------
(* State machine *)

NoRes == [op |-> "none", arg |-> << >>, st |-> "none", val |-> << >>,
          oob |-> FALSE]

\* a construction-time node over nothing, before RLP(bytes const&)
InitNode ==
    /\ m_data = NullRef
    /\ m_lastIndex = -1
    /\ m_lastEnd = 0
    /\ m_lastItem = NullRef
    /\ its = << >>
    /\ advanced = << >>
    /\ res = NoRes

InitFrom(S) ==
    /\ src \in S
    /\ todo = << [x |-> src, lvl |-> 0] >>
    /\ m_out = << >>
    /\ starts = << >>
    /\ buf = << >>
    /\ tail = 0
    /\ faults = FALSE
    /\ InitNode
    /\ pc = "build"

Init == InitFrom(Sources)

InitIter == InitFrom(ListValues)

\* a node constructed over a buffer that did not come from RLPStream
InitRaw ==
    /\ src = StrV(<< >>)
    /\ todo = << >>
    /\ m_out = << >>
    /\ starts = << >>
    /\ buf \in RawBufs
    /\ tail \in TailBytes
    /\ faults \in BOOLEAN
    /\ m_data = [off |-> 0, len |-> Len(buf)]
    /\ m_lastIndex = -1
    /\ m_lastEnd = 0
    /\ m_lastItem = NullRef
    /\ its = << >>
    /\ advanced = << >>
    /\ res = NoRes
    /\ pc = "read"

NodeVars == <<buf, tail, faults, m_data, m_lastIndex, m_lastEnd, m_lastItem,
              its, advanced, res>>

\* the caller appends the next item: bookkeeping common to all appends
Appending(kind) ==
    /\ pc = "build"
    /\ todo # << >>
    /\ Head(todo).x.k = kind
    /\ starts' = IF Head(todo).lvl = 1 THEN Append(starts, Len(m_out)) ELSE starts
    /\ UNCHANGED <<src, pc>>
    /\ UNCHANGED NodeVars

AppendUint ==
    /\ Appending("int")
    /\ Len(Head(todo).x.v) <= SlimBytes
    /\ m_out' = append_uint(m_out, Head(todo).x.v)
    /\ todo' = Tail(todo)

AppendU256 ==
    /\ Appending("int")
    /\ Len(Head(todo).x.v) <= FatBytes
    /\ m_out' = append_u256(m_out, Head(todo).x.v)
    /\ todo' = Tail(todo)

AppendBigint ==
    /\ Appending("int")
    /\ m_out' = append_bigint(m_out, Head(todo).x.v)
    /\ todo' = Tail(todo)

AppendString ==
    /\ Appending("str")
    /\ m_out' = append_string(m_out, Head(todo).x.v)
    /\ todo' = Tail(todo)

\* appendList(n); the caller then owes the n items
AppendList ==
    /\ Appending("list")
    /\ m_out' = appendList(m_out, Len(Head(todo).x.xs))
    /\ todo' = [i \in 1..Len(Head(todo).x.xs) |->
                   [x |-> Head(todo).x.xs[i], lvl |-> Head(todo).lvl + 1]]
               \o Tail(todo)

\* RLP(bytes const&) over the finished stream's out()
Construct ==
    /\ pc = "build"
    /\ todo = << >>
    /\ buf' = m_out
    /\ m_data' = [off |-> 0, len |-> Len(m_out)]
    /\ pc' = "read"
    /\ UNCHANGED <<src, todo, m_out, starts, tail, faults, m_lastIndex,
                   m_lastEnd, m_lastItem, its, advanced, res>>

\* outcome of a call that yields r and reads m_data[0 .. reach-1]
Outcome(op, arg, r, reach) ==
    LET over == m_data.off + reach > Len(buf)
    IN  IF over /\ faults
        THEN [op |-> op, arg |-> arg, st |-> "fault", val |-> << >>,
              oob |-> TRUE]
        ELSE [op |-> op, arg |-> arg, st |-> r.st, val |-> r.val,
              oob |-> over]

\* what a const member call that does not index leaves alone
Untouched == <<src, todo, m_out, starts, buf, tail, faults, m_data,
               m_lastIndex, m_lastEnd, m_lastItem, its, advanced, pc>>

Flag(b) == IF b THEN << 1 >> ELSE << 0 >>

ToSlimInt ==
    /\ pc = "read"
    /\ res' = Outcome("toSlimInt", << >>, Ok(toSlimInt(m_data)),
                      toIntReach(m_data))
    /\ UNCHANGED Untouched

ToFatInt ==
    /\ pc = "read"
    /\ res' = Outcome("toFatInt", << >>, Ok(toFatInt(m_data)),
                      toIntReach(m_data))
    /\ UNCHANGED Untouched

ToBigInt ==
    /\ pc = "read"
    /\ res' = Outcome("toBigInt", << >>, Ok(toBigInt(m_data)),
                      toIntReach(m_data))
    /\ UNCHANGED Untouched

ToStringLenient ==
    /\ pc = "read"
    /\ res' = Outcome("toString", << >>, Ok(toString(m_data)),
                      toStringReach(m_data))
    /\ UNCHANGED Untouched

StringSize ==
    /\ pc = "read"
    /\ res' = Outcome("stringSize", << >>, Ok(<< stringSize(m_data) >>),
                      toStringReach(m_data))
    /\ UNCHANGED Untouched

ItemCount ==
    /\ pc = "read"
    /\ res' = Outcome("itemCount", << >>, Ok(<< itemCount(m_data) >>),
                      itemCountReach(m_data))
    /\ UNCHANGED Untouched

ToStringStrict ==
    /\ pc = "read"
    /\ res' = Outcome("toStringStrict", << >>, toStringStrict(m_data),
                      toStringReach(m_data))
    /\ UNCHANGED Untouched

ItemCountStrict ==
    /\ pc = "read"
    /\ res' = Outcome("itemCountStrict", << >>, itemCountStrict(m_data),
                      itemCountReach(m_data))
    /\ UNCHANGED Untouched

\* a strict integer conversion reads past m_data[0] only once its guard passed
StrictReach(r) == IF r.st = "ok" THEN toIntReach(m_data) ELSE 1

ToSlimIntStrict ==
    /\ pc = "read"
    /\ res' = Outcome("toSlimIntStrict", << >>, toSlimIntStrict(m_data),
                      StrictReach(toSlimIntStrict(m_data)))
    /\ UNCHANGED Untouched

ToFatIntStrict ==
    /\ pc = "read"
    /\ res' = Outcome("toFatIntStrict", << >>, toFatIntStrict(m_data),
                      StrictReach(toFatIntStrict(m_data)))
    /\ UNCHANGED Untouched

ToBigIntStrict ==
    /\ pc = "read"
    /\ res' = Outcome("toBigIntStrict", << >>, toBigIntStrict(m_data),
                      StrictReach(toBigIntStrict(m_data)))
    /\ UNCHANGED Untouched

EqString ==
    /\ pc = "read"
    /\ \E lit \in StrLits :
         res' = Outcome("eqString", lit, Ok(Flag(eqString(m_data, lit))),
                        toStringReach(m_data))
    /\ UNCHANGED Untouched

EqSlim ==
    /\ pc = "read"
    /\ \E lit \in { j \in IntLits : Len(j) <= SlimBytes } :
         res' = Outcome("eqSlim", lit, Ok(Flag(eqSlim(m_data, lit))),
                        toIntReach(m_data))
    /\ UNCHANGED Untouched

EqFat ==
    /\ pc = "read"
    /\ \E lit \in IntLits :
         res' = Outcome("eqFat", lit, Ok(Flag(eqFat(m_data, lit))),
                        toIntReach(m_data))
    /\ UNCHANGED Untouched

EqBig ==
    /\ pc = "read"
    /\ \E lit \in IntLits :
         res' = Outcome("eqBig", lit, Ok(Flag(eqBig(m_data, lit))),
                        toIntReach(m_data))
    /\ UNCHANGED Untouched

\* the indices a caller asks for: around the ends of the list
Requests == (0..(MaxItems + 1)) \cup { itemCount(m_data) - 1, itemCount(m_data) }

\* operator[](_i) on the node: updates the mutable cache
Index ==
    /\ pc = "read"
    /\ \E i \in Requests \cap Nat :
         LET r == index(m_data,
                        [idx |-> m_lastIndex, end |-> m_lastEnd,
                         item |-> m_lastItem], i)
         IN  /\ m_lastIndex' = r.cache.idx
             /\ m_lastEnd' = r.cache.end
             /\ m_lastItem' = r.cache.item
             /\ res' = [op |-> "index", arg |-> << i >>, st |-> "ok",
                        val |-> << r.ret.off, r.ret.len >>, oob |-> FALSE]
    /\ UNCHANGED <<src, todo, m_out, starts, buf, tail, faults, m_data, its,
                   advanced, pc>>

\* auto it = node.begin()
Begin ==
    /\ pc = "read"
    /\ Len(its) < MaxCursors
    /\ its' = Append(its, iterator(m_data, TRUE))
    /\ advanced' = Append(advanced, 0)
    /\ UNCHANGED <<src, todo, m_out, starts, buf, tail, faults, m_data,
                   m_lastIndex, m_lastEnd, m_lastItem, res, pc>>

\* ++it on a live iterator, at most once more after it reached end().  The
\* iterators are interchangeable, so a later one is not run past an earlier
\* one: every set of positions is still reached.
Increment ==
    /\ pc = "read"
    /\ \E j \in 1..Len(its) :
         /\ advanced[j] <= itemCount(m_data)
         /\ IF j = 1 THEN TRUE ELSE advanced[j] < advanced[j - 1]
         /\ its' = [its EXCEPT ![j] = increment(its[j])]
         /\ advanced' = [advanced EXCEPT ![j] = advanced[j] + 1]
    /\ UNCHANGED <<src, todo, m_out, starts, buf, tail, faults, m_data,
                   m_lastIndex, m_lastEnd, m_lastItem, res, pc>>

Build ==
    \/ AppendUint
    \/ AppendU256
    \/ AppendBigint
    \/ AppendString
    \/ AppendList
    \/ Construct

\* encode a value, then read it back
Next ==
    \/ Build
    \/ ToSlimInt
    \/ ToFatInt
    \/ ToBigInt
    \/ ToStringLenient
    \/ StringSize
    \/ ItemCount
    \/ Index

Spec == Init /\ [][Next]_vars

\* encode a list, then iterate over it
NextIter ==
    \/ Build
    \/ Begin
    \/ Increment

SpecIter == InitIter /\ [][NextIter]_vars

\* read a buffer of unknown origin
NextRaw ==
    \/ ToSlimInt
    \/ ToFatInt
    \/ ToBigInt
    \/ ToStringLenient
    \/ StringSize
    \/ ItemCount
    \/ ToStringStrict
    \/ ItemCountStrict
    \/ ToSlimIntStrict
    \/ ToFatIntStrict
    \/ ToBigIntStrict
    \/ EqString
    \/ EqSlim
    \/ EqFat
    \/ EqBig

SpecRaw == InitRaw /\ [][NextRaw]_vars

----------------------------------------------------------------------------
(* Reference readings used by the properties *)

\* the node as a view
View(v) == [off |-> v[1], len |-> v[2]]

RECURSIVE Decode(_), DecodeItems(_, _, _)
\* the value a node denotes, every sub-node read through operator[] of a
\* freshly constructed node
Decode(node) ==
    IF isNull(node) THEN [k |-> "null", v |-> << >>, xs |-> << >>]
    ELSE IF isList(node) THEN ListV(DecodeItems(node, 0, itemCount(node)))
    ELSE IF isString(node) THEN StrV(toString(node))
    ELSE IF isInt(node) THEN IntV(toBigInt(node))
    ELSE [k |-> "invalid", v |-> << >>, xs |-> << >>]

DecodeItems(node, from, n) ==
    IF from >= n THEN << >>
    ELSE << Decode(index(node, FreshCache, from).ret) >>
         \o DecodeItems(node, from + 1, n)

\* the encoding of integer v that the grammar table prescribes
GrammarInt(v) ==
    IF v = << >> THEN << 0 >>
    ELSE IF Len(v) = 1 /\ v[1] <= 23 THEN << v[1] >>
    ELSE IF Len(v) <= 32 THEN << 23 + Len(v) >> \o v
    ELSE << 55 + Len(NumOf(Len(v))) >> \o NumOf(Len(v)) \o v

\* where top-level item number i (from 0) of the encoded list lies in m_out
Span(i) ==
    [off |-> starts[i + 1],
     len |-> (IF i + 2 <= Len(starts) THEN starts[i + 2] ELSE Len(m_out))
             - starts[i + 1]]

\* the value of an Integer node's payload bytes as memory holds them
PayloadNum(node) ==
    LET b == FirstByte(node)
        skip == IF b >= 56 THEN b - 55 ELSE 0
        n == IF b < 24 THEN 0 ELSE IF b < 56 THEN b - 23 ELSE items(node)
    IN  IF b < 24 THEN NumOf(b)
        ELSE Norm([j \in 1..n |-> At(node, skip + j)])

IntOps == { "eqSlim", "eqFat", "eqBig" }
WidthOf(op) == IF op = "eqSlim" THEN SlimBytes
               ELSE IF op = "eqFat" THEN FatBytes ELSE BigBytes

----------------------------------------------------------------------------
(* Properties *)

\* C1: the node over the bytes of append(v) is an Integer node and the
\* lenient toInt at a width that holds v gives back exactly v.
C1_IntRoundTrip ==
    (pc = "read" /\ src.k = "int") =>
        /\ isInt(m_data)
        /\ res.op = "toBigInt" => res.st = "ok" /\ res.val = src.v
        /\ (res.op = "toFatInt" /\ Len(src.v) <= FatBytes) =>
               res.st = "ok" /\ res.val = src.v
        /\ (res.op = "toSlimInt" /\ Len(src.v) <= SlimBytes) =>
               res.st = "ok" /\ res.val = src.v

C1_Witness ==
    /\ pc = "read" /\ src.k = "int" /\ Len(src.v) > FatBytes
    /\ res.op = "toBigInt" /\ res.val = src.v

\* C2: append(integer) emits exactly the minimal encoding of the grammar
\* table; append(0) is [0x00] and append(256) is [0x19, 0x01, 0x00].
C2_MinimalInt ==
    (src.k = "int" /\ todo = << >>) =>
        /\ m_out = GrammarInt(src.v)
        /\ src.v = << >> => m_out = << 0 >>
        /\ src.v = << 1, 0 >> => m_out = << 25, 1, 0 >>

C2_Witness ==
    /\ pc = "build" /\ todo = << >> /\ src.k = "int" /\ Len(src.v) > 32
    /\ m_out[1] = 56 /\ m_out[2] = Len(src.v)

\* C3: a list encoded by appendList(n) and n item appends at every level
\* decodes to a List node with the same item count whose sub-node [i]
\* decodes recursively to the i-th item, in order.
C3_ListRoundTrip ==
    (pc = "read" /\ src.k = "list") =>
        /\ isList(m_data)
        /\ itemCount(m_data) = Len(src.xs)
        /\ res.op = "itemCount" => res.val = << Len(src.xs) >>
        /\ (res.op = "index" /\ res.arg[1] < Len(src.xs)) =>
               Decode(View(res.val)) = src.xs[res.arg[1] + 1]

C3_Witness ==
    /\ pc = "read" /\ src.k = "list" /\ res.op = "index"
    /\ res.arg[1] = 1 /\ Len(src.xs) > 2
    /\ src.xs[2].k = "list" /\ src.xs[2].xs # << >>
    /\ Decode(View(res.val)) = src.xs[2]

\* C4: the node over the bytes of append(s) is a String node with
\* stringSize() = length of s and toString() = s; the empty string encodes
\* to [0x40] and is isEmpty().
C4_StringRoundTrip ==
    (pc = "read" /\ src.k = "str") =>
        /\ isString(m_data)
        /\ res.op = "stringSize" => res.val = << Len(src.v) >>
        /\ res.op = "toString" => res.val = src.v
        /\ src.v = << >> => buf = << 64 >> /\ isEmpty(m_data)

C4_Witness ==
    /\ pc = "read" /\ src.k = "str" /\ Len(src.v) > 55
    /\ res.op = "toString" /\ res.val = src.v

\* C5: no decoder call reads at or beyond the end of the buffer; a length
\* that claims more bytes than remain is reported as BadCast.
C5_NoReadBeyondBuffer ==
    pc = "read" =>
        /\ ~res.oob
        /\ (res.op # "none" /\ m_data.len < actualSize(m_data)
            /\ res.op \in { "toSlimIntStrict", "toFatIntStrict",
                            "toBigIntStrict", "toStringStrict" }) =>
               res.st = "BadCast"

\* C6: on a node that is not a List itemCount() is 0 and itemCountStrict()
\* throws BadCast; on a List node itemCountStrict() does not throw and
\* gives what itemCount() gives.
C6_ItemCount ==
    pc = "read" =>
        /\ (~(FirstByte(m_data) \in 128..191) /\ res.op = "itemCount") =>
               res.st = "ok" /\ res.val = << 0 >>
        /\ (~(FirstByte(m_data) \in 128..191) /\ res.op = "itemCountStrict") =>
               res.st = "BadCast"
        /\ (FirstByte(m_data) \in 128..191 /\ res.op = "itemCountStrict") =>
               /\ res.st # "BadCast"
               /\ [res EXCEPT !.op = "itemCount"]
                    = Outcome("itemCount", << >>, Ok(<< itemCount(m_data) >>),
                              itemCountReach(m_data))

C6_Witness ==
    /\ pc = "read" /\ FirstByte(m_data) \in 128..191
    /\ res.op = "itemCountStrict" /\ res.st = "ok" /\ res.val = << 33 >>

\* C7 as stated: == with a literal is true only when the node's category
\* matches the literal's kind and the lenient conversion equals it; any
\* category mismatch gives false without an error.
C7_EqualityByCategory ==
    pc = "read" =>
        /\ (res.op = "eqString" /\ res.val = << 1 >>) =>
               isString(m_data) /\ toString(m_data) = res.arg
        /\ (res.op \in IntOps /\ res.val = << 1 >>) =>
               isInt(m_data) /\ toInt(m_data, WidthOf(res.op)) = res.arg
        /\ (res.op \in IntOps /\ ~isInt(m_data)) =>
               res.st = "ok" /\ res.val = << 0 >>
        /\ (res.op = "eqString" /\ ~isString(m_data)) =>
               res.st = "ok" /\ res.val = << 0 >>

\* C7 amended: == with a string literal is true only for a String node whose
\* toString() equals it; == with an integer literal is true only for an
\* Integer or String node whose lenient integer value at the literal's width
\* equals it; a List node, or an Integer node against a string literal,
\* gives false without an error.
C7_EqualityBestEffort ==
    pc = "read" =>
        /\ (res.op = "eqString" /\ res.val = << 1 >>) =>
               isString(m_data) /\ toString(m_data) = res.arg
        /\ (res.op \in IntOps /\ res.val = << 1 >>) =>
               /\ isInt(m_data) \/ isString(m_data)
               /\ toInt(m_data, WidthOf(res.op)) = res.arg
        /\ (res.op \in IntOps /\ ~isInt(m_data) /\ ~isString(m_data)) =>
               res.st = "ok" /\ res.val = << 0 >> /\ ~res.oob
        /\ (res.op = "eqString" /\ ~isString(m_data)) =>
               res.st = "ok" /\ res.val = << 0 >> /\ ~res.oob

C7_Witness ==
    /\ pc = "read" /\ isString(m_data)
    /\ res.op = "eqSlim" /\ res.arg = << 1 >> /\ res.val = << 1 >>

\* C8: every request [i] on the same node returns what a fresh node
\* returns: the bytes of the i-th sub-item when i < itemCount(), a null
\* node otherwise; the cache, once set, holds an index below itemCount()
\* and an end offset inside the node's data.
C8_IndexCache ==
    pc = "read" =>
        /\ res.op = "index" =>
               /\ View(res.val) = index(m_data, FreshCache, res.arg[1]).ret
               /\ (src.k = "list" /\ res.arg[1] < Len(src.xs)) =>
                      View(res.val) = Span(res.arg[1])
               /\ (src.k # "list" \/ res.arg[1] >= Len(src.xs)) =>
                      View(res.val) = NullRef
        /\ m_lastIndex # -1 =>
               /\ m_lastIndex < itemCount(m_data)
               /\ payload(m_data).off + m_lastEnd <= m_data.len
               /\ m_lastItem = Span(m_lastIndex)

C8_Witness ==
    /\ pc = "read" /\ src.k = "list" /\ Len(src.xs) = 3
    /\ res.op = "index" /\ res.arg = << 3 >> /\ View(res.val) = NullRef
    /\ m_lastIndex = 2 /\ m_lastItem.len > 1

\* the end() sentinel of the node
EndIt == iterator(m_data, FALSE)

\* C9: a cursor from begin() advanced k times is at the same sub-item as
\* [k] and differs from end() while k < itemCount(); it equals end() after
\* itemCount() advances; every cursor is independent of the others.
C9_Iterator ==
    pc = "read" =>
        \A j \in 1..Len(its) :
            /\ advanced[j] < itemCount(m_data) =>
                   /\ deref(its[j]) = index(m_data, FreshCache, advanced[j]).ret
                   /\ deref(its[j]) = Span(advanced[j])
                   /\ ~iterEq(its[j], EndIt)
            /\ advanced[j] >= itemCount(m_data) => iterEq(its[j], EndIt)

C9_Witness ==
    /\ pc = "read" /\ Len(its) = 2 /\ itemCount(m_data) = 3
    /\ advanced[1] = 3 /\ iterEq(its[1], EndIt)
    /\ advanced[2] = 1 /\ deref(its[2]) = Span(1)

\* C10: toSlimIntStrict() throws BadCast unless the node is an Integer whose
\* value fits eth::uint and otherwise returns the untruncated payload value;
\* toFatIntStrict() accepts exactly first bytes up to 0x37; toBigIntStrict()
\* accepts exactly the Integer nodes.
C10_StrictInts ==
    pc = "read" =>
        /\ res.op = "toSlimIntStrict" =>
               /\ ~(FirstByte(m_data) < 64
                    /\ Len(PayloadNum(m_data)) <= SlimBytes) =>
                      res.st = "BadCast"
               /\ res.st = "ok" => res.val = PayloadNum(m_data)
        /\ res.op = "toFatIntStrict" =>
               /\ res.st = "BadCast" <=> FirstByte(m_data) > 55
               /\ res.st = "ok" => res.val = PayloadNum(m_data)
        /\ res.op = "toBigIntStrict" =>
               /\ res.st = "BadCast" <=> FirstByte(m_data) >= 64
               /\ res.st = "ok" => res.val = PayloadNum(m_data)

C10_Witness ==
    /\ pc = "read" /\ res.op = "toSlimIntStrict" /\ res.st = "ok"
    /\ Len(res.val) = SlimBytes /\ ~res.oob

====
